---- MODULE Spec2Model ----
(***************************************************************************)
(* Model of the FoXAI example notebooks (example/notebooks/*.ipynb) and of *)
(* the CI definitions shipped with them: the model loader load_model, the  *)
(* download cell, the model-loading cell, the explanation loops and the    *)
(* "Build Python Module" action with its "Installation test" workflow.     *)
(*                                                                         *)
(* Strings are sequences of one-character strings, so that lower() and     *)
(* strip() are computed character by character as Python computes them.    *)
(***************************************************************************)
EXTENDS Integers, Sequences, FiniteSets, TLC

\* ------------------------------------------------------------------ bounds
MaxPad == 1          \* longest run of whitespace put around a name
MaxShort == 3        \* longest exhaustively enumerated short name
MaxDataset == 3      \* largest number of samples in the validation folder
MaxBatch == 2        \* largest batch_size
MaxLimit == 2        \* largest max_samples_explained
NumClasses == 2      \* number of class labels of the data set
MaxRuns == 2         \* number of workflow runs followed

NULL == "None"

\* ----------------------------------------------------------------- strings
UpperChars == <<"A","B","C","D","E","F","G","H","I","J","K","L","M",
                "N","O","P","Q","R","S","T","U","V","W","X","Y","Z">>
LowerChars == <<"a","b","c","d","e","f","g","h","i","j","k","l","m",
                "n","o","p","q","r","s","t","u","v","w","x","y","z">>
Whitespace == {" ", "\t", "\n"}

\* str.lower() on one character
lower_char(c) ==
    IF \E i \in 1..Len(UpperChars) : UpperChars[i] = c
    THEN LowerChars[CHOOSE i \in 1..Len(UpperChars) : UpperChars[i] = c]
    ELSE c

\* str.lower()
lower(s) == [i \in 1..Len(s) |-> lower_char(s[i])]

RECURSIVE lstrip(_)
lstrip(s) == IF s # <<>> /\ Head(s) \in Whitespace THEN lstrip(Tail(s)) ELSE s

RECURSIVE rstrip(_)
rstrip(s) ==
    IF s # <<>> /\ s[Len(s)] \in Whitespace
    THEN rstrip(SubSeq(s, 1, Len(s) - 1))
    ELSE s

\* str.strip()
strip(s) == rstrip(lstrip(s))

\* model_name_normalized: str = model_name.lower().strip()
normalize_raw(model_name) == model_name
normalize(model_name) == strip(lower(model_name))

\* the literals the branches of load_model compare against
YOLOV5 == <<"y","o","l","o","v","5">>
VGG11 == <<"v","g","g","1","1">>
VIT == <<"v","i","t">>
\* the name the docstring of load_model spells `resent50`
RESENT50 == <<"r","e","s","e","n","t","5","0">>
RESNET50_transposed == <<"r","e","s","e","n","t","5","0">>
RESNET50 == <<"r","e","s","n","e","t","5","0">>
MOBILENETV3 == <<"m","o","b","i","l","e","n","e","t","v","3">>

DocstringNames ==
    {<<"v","g","g","1","1">>, RESENT50, <<"y","o","l","o","v","5">>, <<"v","i","t">>,
     <<"m","o","b","i","l","e","n","e","t","v","3">>}

\* ------------------------------------------------------------ environment
FileNames == {"yolov5s-cls.pt", "ImageNet.yaml"}
\* a file of local storage is absent, complete, or cut short by a failed transfer
FileStates == {"absent", "ok", "partial"}
\* the weight sources of the model zoo (torch hub and torchvision)
WeightSources == {"ultralytics/yolov5", "VGG11_Weights", "ViT_B_16_Weights",
                  "ResNet50_Weights", "MobileNet_V3_Small_Weights",
                  "EfficientNet_B0_Weights"}

\* weights.meta["categories"] and the names of ImageNet.yaml, NumClasses labels each
MetaCategories == [i \in 1..NumClasses |-> <<"meta", i>>]
YamlCategories == [i \in 1..NumClasses |-> <<"yaml", i>>]

\* ------------------------------------------------------------- load_model
Returned(m, cats, tr, ld, op) ==
    [kind |-> "return", exc |-> NULL, message |-> <<>>, model |-> m,
     categories |-> cats, transform |-> tr, loaded |-> ld, opened |-> op]

Raised(e, msg, ld, op) ==
    [kind |-> "raise", exc |-> e, message |-> msg, model |-> NULL,
     categories |-> <<>>, transform |-> NULL, loaded |-> ld, opened |-> op]

\* raise ValueError(f"Unrecognized model name: {model_name}")
UnrecognizedNormalized(model_name) ==
    Raised("ValueError", <<"Unrecognized model name: ">> \o normalize(model_name), {}, {})
Unrecognized(model_name) ==
    Raised("ValueError", <<"Unrecognized model name: ">> \o model_name, {}, {})

\* the yolov5 branch: torch.hub.load of the local weights, the MobileNetV3
\* transform, then open("ImageNet.yaml") and data["names"]
load_yolov5(fs, z) ==
    IF "ultralytics/yolov5" \notin z \/ fs["yolov5s-cls.pt"] # "ok"
    THEN Raised("HubError", <<>>, {},
                IF fs["yolov5s-cls.pt"] = "absent" THEN {} ELSE {"yolov5s-cls.pt"})
    ELSE IF fs["ImageNet.yaml"] = "absent"
    THEN Raised("FileNotFoundError", <<>>, {"yolov5"}, {"yolov5s-cls.pt"})
    ELSE IF fs["ImageNet.yaml"] = "partial"
    THEN Raised("YAMLError", <<>>, {"yolov5"}, {"yolov5s-cls.pt", "ImageNet.yaml"})
    ELSE Returned("yolov5", YamlCategories, "MobileNet_V3_Small_Weights",
                  {"yolov5"}, {"yolov5s-cls.pt", "ImageNet.yaml"})

\* a torchvision branch: weights = W; model = ctor(weights=weights);
\* categories = weights.meta["categories"]; transform = weights.transforms()
\* (a transform is named by the weights whose transforms() built it)
load_torchvision(family, weights, z) ==
    IF weights \notin z
    THEN Raised("DownloadError", <<>>, {}, {})
    ELSE Returned(family, MetaCategories, weights, {family}, {})

load_model(model_name, fs, z) ==
    LET model_name_normalized == normalize(model_name) IN
    IF model_name_normalized = YOLOV5 THEN load_yolov5(fs, z)
    ELSE IF model_name_normalized = VGG11
    THEN load_torchvision("vgg11", "VGG11_Weights", z)
    ELSE IF model_name_normalized = VIT
    THEN load_torchvision("vit_b_16", "ViT_B_16_Weights", z)
    ELSE IF model_name_normalized = RESNET50
    THEN load_torchvision("resnet50", "ResNet50_Weights", z)
    ELSE IF model_name_normalized = MOBILENETV3
    THEN load_torchvision("mobilenet_v3_small", "MobileNet_V3_Small_Weights", z)
    ELSE Unrecognized(model_name)

\* load_model() of the insertion/deletion notebook: EfficientNet-B0, no argument
load_model_efficientnet(z) ==
    load_torchvision("efficientnet_b0", "EfficientNet_B0_Weights", z)

\* ------------------------------------------------------ model-name inputs
upper_char(c) ==
    IF \E i \in 1..Len(LowerChars) : LowerChars[i] = c
    THEN UpperChars[CHOOSE i \in 1..Len(LowerChars) : LowerChars[i] = c]
    ELSE c
upper(s) == [i \in 1..Len(s) |-> upper_char(s[i])]
capitalize(s) == [i \in 1..Len(s) |-> IF i = 1 THEN upper_char(s[i]) ELSE s[i]]

SeqsUpTo(S, n) == UNION {[1..k -> S] : k \in 0..n}

\* the names the specification calls supported, spelled as the specification
\* spells them
SupportedNames ==
    {<<"y","o","l","o","v","5">>, <<"v","g","g","1","1">>, <<"v","i","t">>,
     <<"r","e","s","n","e","t","5","0">>,
     <<"m","o","b","i","l","e","n","e","t","v","3">>}

BaseNames ==
    SupportedNames \cup
    {RESENT50, <<>>, <<"v","g","g","1","6">>, <<"r","e","s","n","e","t">>,
     <<"v","i"," ","t">>, <<"y","o","l","o","v","5","s">>}
Pads == SeqsUpTo({" ", "\t"}, MaxPad)
ShortNames == SeqsUpTo({"v", "I", "t", " "}, MaxShort)
NameInputs ==
    {l \o c \o r : l \in Pads, r \in Pads,
                   c \in UNION {{b, upper(b), capitalize(b)} : b \in BaseNames}}
    \cup ShortNames

\* ------------------------------------------------------------------ state
VARIABLES
    files,                  \* local storage: file name -> FileStates
    zoo,                    \* the weight sources that can be obtained
    fetched,                \* file name -> number of wget runs for it
    cell_runs,              \* number of runs of the download cell
    notebook,               \* the notebook being run
    pc,                     \* the cell (or call) in progress
    model_name,             \* configuration: name handed to load_model
    batch_size,             \* configuration
    max_samples_explained,  \* configuration
    dataset,                \* class index of each sample of <data_dir>/val, in order
    prediction,             \* class index -> class the model predicts for it
    result,                 \* outcome of the load_model call
    model,                  \* the notebook's model object
    categories,             \* the notebook's label list
    transform,              \* the notebook's transform
    imagenet_val,           \* the ImageFolder data set
    setup,                  \* calls made by the model-loading cell, in order
    explainer_list,         \* the explainers requested by the running loop
    lpc,                    \* position inside the running explanation loop
    batch_start,            \* index of the first sample of the current batch
    pos,                    \* offset of the next sample in the current batch
    sample_counter,         \* the loop's counter
    dirs,                   \* directories below artifact_dir
    artifacts,              \* PNG files below artifact_dir
    fsops,                  \* what the loops did to the artifact directory
    calls,                  \* what each explainer call was handed
    ci_event,               \* the repository event being served
    ci_run,                 \* status of each step of the current workflow run
    ci_done,                \* conclusions of the finished workflow runs
    counter,                \* the display cell's counter
    axes,                   \* what plt.subplots returned to the display cell
    shown,                  \* the images the display cell has drawn, in order
    display_exc             \* the exception that ended the display cell, if any

vars == <<files, zoo, fetched, cell_runs, notebook, pc, model_name, batch_size, max_samples_explained,
          dataset, prediction, result, model, categories, transform, imagenet_val, setup,
          explainer_list, lpc, batch_start, pos, sample_counter, dirs, artifacts,
          fsops, calls, ci_event, ci_run, ci_done, counter, axes, shown,
          display_exc>>

envVars == <<files, zoo, fetched, cell_runs>>
configVars == <<notebook, model_name, batch_size, max_samples_explained, dataset,
                prediction>>
loadVars == <<result, model, categories, transform, imagenet_val, setup>>
loopVars == <<explainer_list, lpc, batch_start, pos, sample_counter>>
outVars == <<dirs, artifacts, fsops, calls>>
ciVars == <<ci_event, ci_run, ci_done>>
displayVars == <<counter, axes, shown, display_exc>>

NoResult ==
    [kind |-> "none", exc |-> NULL, message |-> <<>>, model |-> NULL,
     categories |-> <<>>, transform |-> NULL, loaded |-> {}, opened |-> {}]
NoModel == [family |-> NULL, training |-> FALSE, device |-> NULL]
NoDataset == [built |-> FALSE, transform |-> NULL]
NoAxes == [kind |-> "none", size |-> 0]

\* nothing of the notebook has run
NotebookFresh ==
    /\ fetched = [f \in FileNames |-> 0]
    /\ cell_runs = 0
    /\ result = NoResult
    /\ model = NoModel
    /\ categories = <<>>
    /\ transform = NULL
    /\ imagenet_val = NoDataset
    /\ setup = <<>>
    /\ explainer_list = <<>>
    /\ lpc = "idle"
    /\ batch_start = 0
    /\ pos = 0
    /\ sample_counter = 0
    /\ dirs = {}
    /\ artifacts = {}
    /\ fsops = {}
    /\ calls = {}
    /\ counter = 0
    /\ axes = NoAxes
    /\ shown = <<>>
    /\ display_exc = NULL

\* no workflow run has been requested
CIFresh ==
    /\ ci_event = NULL
    /\ ci_run = <<>>
    /\ ci_done = <<>>

\* ---------------------------------------------- load_model as a function
\* Init draws the argument and the environment; the one action applies it.
InitLoad ==
    /\ pc = "call"
    /\ notebook = "basic_usage"
    /\ model_name \in NameInputs
    /\ files \in [FileNames -> FileStates]
    /\ zoo \in {{}, WeightSources}
    /\ batch_size = 1
    /\ max_samples_explained = 1
    /\ dataset = <<>>
    /\ prediction = <<>>
    /\ NotebookFresh
    /\ CIFresh

CallLoadModel ==
    /\ pc = "call"
    /\ result' = load_model(model_name, files, zoo)
    /\ pc' = "returned"
    /\ UNCHANGED <<envVars, configVars, displayVars, model, categories, transform, imagenet_val,
                   setup, loopVars, outVars, ciVars>>

NextLoad == CallLoadModel

SpecLoad == InitLoad /\ [][NextLoad]_vars

\* --------------------------------------------------------- download cell
\* what a wget run leaves behind: the file, a truncated file, or nothing
WgetOutcomes == {"ok", "partial", "absent"}

\* ![ ! -f F ] && wget URL  --  the state of F after the line, given wget's outcome
fetch_always(fs, f, outcome) == [state |-> outcome, ran |-> TRUE]
fetch_if_missing(fs, f, outcome) ==
    IF fs[f] = "absent"
    THEN [state |-> outcome, ran |-> TRUE]
    ELSE [state |-> fs[f], ran |-> FALSE]

DownloadLines(o1, o2) ==
    LET w == fetch_if_missing(files, "yolov5s-cls.pt", o1)
        y == fetch_if_missing(files, "ImageNet.yaml", o2)
    IN /\ files' = [f \in FileNames |->
                        IF f = "yolov5s-cls.pt" THEN w.state ELSE y.state]
       /\ fetched' = [f \in FileNames |->
                        fetched[f] + (IF f = "yolov5s-cls.pt"
                                      THEN (IF w.ran THEN 1 ELSE 0)
                                      ELSE (IF y.ran THEN 1 ELSE 0))]
       /\ cell_runs' = cell_runs + 1

\* the download cell of a notebook run
DownloadCell ==
    /\ pc = "download"
    /\ \E o1 \in WgetOutcomes, o2 \in WgetOutcomes : DownloadLines(o1, o2)
    /\ pc' = "load"
    /\ UNCHANGED <<zoo, configVars, displayVars, loadVars, loopVars, outVars, ciVars>>

\* ---------------------------------------------------- model-loading cell
Devices == {"cuda:0", "cpu"}

\* a freshly constructed torch.nn.Module is in training mode, on the CPU
Constructed(family) == [family |-> family, training |-> TRUE, device |-> "cpu"]
\* model.eval()
model_eval_skipped(m) == m
model_eval(m) == [m EXCEPT !.training = FALSE]
\* model.to(device)
model_to(m, device) == [m EXCEPT !.device = device]
\* torchvision.datasets.ImageFolder(root=..., transform=transform)
ImageFolder(t) == [built |-> TRUE, transform |-> t]

LoadCell ==
    /\ pc = "load"
    /\ result' = IF notebook = "basic_usage"
                 THEN load_model(model_name, files, zoo)
                 ELSE load_model_efficientnet(zoo)
    /\ IF result'.kind = "raise"
       THEN /\ pc' = "error"
            /\ UNCHANGED <<model, categories, transform, imagenet_val, setup>>
       ELSE /\ \E device \in Devices :
                 model' = model_to(model_eval(Constructed(result'.model)), device)
            /\ categories' = result'.categories
            /\ transform' = result'.transform
            /\ imagenet_val' = ImageFolder(transform')
            /\ setup' = <<"load_model", "eval", "to", "ImageFolder", "DataLoader">>
            /\ pc' = IF notebook = "basic_usage" THEN "display" ELSE "metric"
    /\ UNCHANGED <<envVars, configVars, displayVars, loopVars, outVars, ciVars>>

\* ------------------------------------------------------ explanation loops
Explainer(name, layer) == [explainer_name |-> name, layer |-> layer]
GeneralExplainers ==
    <<Explainer("CV_GRADIENT_SHAP_EXPLAINER", NULL),
      Explainer("CV_INPUT_X_GRADIENT_EXPLAINER", NULL),
      Explainer("CV_INTEGRATED_GRADIENTS_EXPLAINER", NULL)>>
LayerExplainers ==
    <<Explainer("CV_GUIDEDGRADCAM_EXPLAINER", "conv"),
      Explainer("CV_LAYER_GRADCAM_EXPLAINER", "conv")>>
MetricExplainers == <<Explainer("CV_LAYER_GRADCAM_EXPLAINER", "conv")>>

\* the keys of the attributes_dict FoXaiExplainer returns for a request: one
\* entry per requested explainer, keyed by its name, in request order
AttributeKeys(explainers) == [i \in 1..Len(explainers) |-> explainers[i].explainer_name]

\* what an explainer call is handed
Observation(explainers) ==
    [family |-> model.family, training |-> model.training, device |-> model.device,
     data_transform |-> imagenet_val.transform,
     keys |-> AttributeKeys(explainers)]

\* categories[label.item()]
category_of(label) == categories[label + 1]

\* f"artifact_{sample_counter}_{category_name}.png" below directory dir; the
\* field sample records which sample's figure the file holds
artifact_unnumbered(dir, count, category_name, index) ==
    [dir |-> dir, name |-> <<"artifact", 0, category_name>>, sample |-> index]
artifact(dir, count, category_name, index) ==
    [dir |-> dir, name |-> <<"artifact", count, category_name>>, sample |-> index]

\* savefig replaces a file of the same path
savefig_single(fs, file) == {g \in fs : g.dir # file.dir} \cup {file}
savefig(fs, file) ==
    {g \in fs : ~(g.dir = file.dir /\ g.name = file.name)} \cup {file}

\* os.path.exists(os.path.join(artifact_dir, key)); ds are the directories
\* below artifact_dir, and artifact_dir itself exists once one of them does
path_exists(ds, key) == key \in ds
\* os.makedirs(path) creates the directory and every missing parent
os_mkdir(ds, key) == IF ds = {} THEN ds ELSE ds \cup {key}
os_makedirs(ds, key) == ds \cup {key}

\* for key, value in attributes_dict.items(): makedirs if missing, savefig
RECURSIVE save_all(_, _, _, _, _)
save_all(keys, out, count, index, label) ==
    IF keys = <<>> THEN out
    ELSE LET key == Head(keys)
             existed == path_exists(out.dirs, key)
             made == IF existed THEN out.dirs ELSE os_makedirs(out.dirs, key)
             file == artifact(key, count, category_of(label), index)
         IN save_all(Tail(keys),
                [dirs |-> made,
                 artifacts |-> savefig(out.artifacts, file),
                 fsops |-> out.fsops \cup
                     (IF existed THEN {} ELSE {[op |-> "makedirs", dir |-> key,
                                                count |-> count,
                                                existed |-> existed]})
                     \cup {[op |-> "savefig", dir |-> key, count |-> count,
                            existed |-> path_exists(made, key)]}],
                count, index, label)

\* len(dataset)
N == Len(dataset)
\* the number of samples of the batch that starts at batch_start
BatchLen == IF batch_start + batch_size <= N THEN batch_size ELSE N - batch_start

\* if sample_counter > max_samples_explained: break
limit_reached(count) == count > max_samples_explained

LoopCells == {"general", "layer"}
NextCell == IF pc = "general" THEN "layer" ELSE "done"

\* explainer_list = [...]; sample_counter = 0; the outer for statement starts
StartLoop ==
    /\ pc \in LoopCells
    /\ lpc = "idle"
    /\ explainer_list' = IF pc = "general" THEN GeneralExplainers ELSE LayerExplainers
    /\ sample_counter' = 0
    /\ batch_start' = 0
    /\ pos' = 0
    /\ lpc' = "outer"
    /\ UNCHANGED <<pc, envVars, configVars, displayVars, loadVars, outVars, ciVars>>

\* for sample_batch in val_dataloader: the next batch, or the end of the loop
FetchBatch ==
    /\ pc \in LoopCells
    /\ lpc = "outer"
    /\ IF batch_start >= N
       THEN /\ lpc' = "idle"
            /\ pc' = NextCell
       ELSE /\ lpc' = "inner"
            /\ pc' = pc
    /\ pos' = 0
    /\ UNCHANGED <<explainer_list, batch_start, sample_counter,
                   envVars, configVars, displayVars, loadVars, outVars, ciVars>>

\* the body of the inner for statement, for the sample at batch_start + pos
ProcessSample ==
    /\ pc \in LoopCells
    /\ lpc = "inner"
    /\ pos < BatchLen
    /\ LET index == batch_start + pos
           label == dataset[index + 1]
           out == save_all(AttributeKeys(explainer_list),
                           [dirs |-> dirs, artifacts |-> artifacts, fsops |-> fsops],
                           sample_counter, index, label)
       IN /\ calls' = calls \cup {Observation(explainer_list)}
          /\ dirs' = out.dirs
          /\ artifacts' = out.artifacts
          /\ fsops' = out.fsops
    /\ sample_counter' = sample_counter + 1
    /\ IF limit_reached(sample_counter') \/ pos + 1 >= BatchLen
       THEN lpc' = "check" /\ pos' = pos
       ELSE lpc' = "inner" /\ pos' = pos + 1
    /\ UNCHANGED <<pc, explainer_list, batch_start,
                   envVars, configVars, displayVars, loadVars, ciVars>>

OuterCheck_no_break ==
    /\ pc \in LoopCells
    /\ lpc = "check"
    /\ lpc' = "outer"
    /\ pc' = pc
    /\ batch_start' = batch_start + batch_size
    /\ UNCHANGED <<explainer_list, pos, sample_counter,
                   envVars, configVars, displayVars, loadVars, outVars, ciVars>>

\* the if statement after the inner loop
OuterCheck ==
    /\ pc \in LoopCells
    /\ lpc = "check"
    /\ IF limit_reached(sample_counter)
       THEN /\ lpc' = "idle"
            /\ pc' = NextCell
            /\ batch_start' = batch_start
       ELSE /\ lpc' = "outer"
            /\ pc' = pc
            /\ batch_start' = batch_start + batch_size
    /\ UNCHANGED <<explainer_list, pos, sample_counter,
                   envVars, configVars, displayVars, loadVars, outVars, ciVars>>

\* ------------------------------------------------ the data-sample display
\* plt.subplots(nrows, ncols) with the default squeeze=True: a single Axes
\* object for a 1 x 1 grid, an array of Axes otherwise
plt_subplots(nrows, ncols) ==
    IF nrows * ncols = 1
    THEN [kind |-> "Axes", size |-> 1]
    ELSE [kind |-> "ndarray", size |-> nrows * ncols]

\* axes.flat[i]: only an array has .flat, and i has to be inside it
flat_access(ax, i) ==
    IF ax.kind # "ndarray" THEN "AttributeError"
    ELSE IF i >= ax.size THEN "IndexError"
    ELSE "ok"

\* if counter >= max_samples_explained: break
display_done(c) == c >= max_samples_explained

\* counter = 0; fig, axes = plt.subplots(...); the outer for statement starts
StartDisplay ==
    /\ pc = "display"
    /\ lpc = "idle"
    /\ counter' = 0
    /\ axes' = plt_subplots(max_samples_explained, 1)
    /\ shown' = <<>>
    /\ display_exc' = NULL
    /\ batch_start' = 0
    /\ pos' = 0
    /\ lpc' = "outer"
    /\ UNCHANGED <<pc, explainer_list, sample_counter,
                   envVars, configVars, loadVars, outVars, ciVars>>

\* for batch in val_dataloader: the next batch, or the end of the cell
DisplayFetchBatch ==
    /\ pc = "display"
    /\ lpc = "outer"
    /\ IF batch_start >= N
       THEN /\ lpc' = "idle"
            /\ pc' = "general"
       ELSE /\ lpc' = "inner"
            /\ pc' = pc
    /\ pos' = 0
    /\ UNCHANGED <<explainer_list, batch_start, sample_counter, displayVars,
                   envVars, configVars, loadVars, outVars, ciVars>>

\* the body of the inner for statement, for the sample at batch_start + pos.
\* An exception ends the cell; the cells below use nothing the display cell
\* defines, so the notebook either stops there or goes on with the next cell.
DisplaySample ==
    /\ pc = "display"
    /\ lpc = "inner"
    /\ pos < BatchLen
    /\ LET index == batch_start + pos
           access == flat_access(axes, counter)
       IN IF access # "ok"
          THEN /\ display_exc' = access
               /\ lpc' = "idle"
               /\ pc' \in {"error", "general"}
               /\ UNCHANGED <<counter, shown, pos>>
          ELSE /\ shown' = Append(shown, [axis |-> counter, sample |-> index])
               /\ counter' = counter + 1
               /\ IF display_done(counter') \/ pos + 1 >= BatchLen
                  THEN lpc' = "check" /\ pos' = pos
                  ELSE lpc' = "inner" /\ pos' = pos + 1
               /\ UNCHANGED <<pc, display_exc>>
    /\ UNCHANGED <<axes, explainer_list, batch_start, sample_counter,
                   envVars, configVars, loadVars, outVars, ciVars>>

\* the if statement after the inner loop
DisplayOuterCheck ==
    /\ pc = "display"
    /\ lpc = "check"
    /\ IF display_done(counter)
       THEN /\ lpc' = "idle"
            /\ pc' = "general"
            /\ batch_start' = batch_start
       ELSE /\ lpc' = "outer"
            /\ pc' = pc
            /\ batch_start' = batch_start + batch_size
    /\ UNCHANGED <<explainer_list, pos, sample_counter, displayVars,
                   envVars, configVars, loadVars, outVars, ciVars>>

\* the metric cell of the insertion/deletion notebook: one explainer call on
\* the first sample, then attributes_dict["CV_LAYER_GRADCAM_EXPLAINER"]
MetricCell ==
    /\ pc = "metric"
    /\ IF N = 0
       THEN /\ pc' = "error"
            /\ UNCHANGED <<explainer_list, calls>>
       ELSE /\ explainer_list' = MetricExplainers
            /\ calls' = calls \cup {Observation(MetricExplainers)}
            /\ pc' = IF \E i \in 1..Len(MetricExplainers) :
                          AttributeKeys(MetricExplainers)[i] = "CV_LAYER_GRADCAM_EXPLAINER"
                     THEN "done" ELSE "error"
    /\ UNCHANGED <<lpc, batch_start, pos, sample_counter, dirs, artifacts, fsops,
                   envVars, configVars, displayVars, loadVars, ciVars>>

\* ------------------------------------------------------- a notebook run
Labels == 0..(NumClasses - 1)
\* ImageFolder lists the samples class folder by class folder
Datasets ==
    {d \in SeqsUpTo(Labels, MaxDataset) :
        \A i \in 1..Len(d), j \in 1..Len(d) : i < j => d[i] <= d[j]}
\* the model predicts every class right, or takes each class for the next one
Predictions ==
    {[l \in Labels |-> l], [l \in Labels |-> (l + 1) % NumClasses]}
\* model_name: str = "yolov5", and another spelling of a torchvision model
ConfiguredNames == {<<"y","o","l","o","v","5">>, <<" ","V","G","G","1","1">>}

Init ==
    /\ pc = "download"
    /\ notebook \in {"basic_usage", "deletion_insertion"}
    /\ model_name \in IF notebook = "basic_usage" THEN ConfiguredNames ELSE {<<>>}
    /\ files \in [FileNames -> {"absent", "ok"}]
    /\ zoo = WeightSources
    /\ batch_size \in 1..MaxBatch
    /\ max_samples_explained \in 1..MaxLimit
    /\ dataset \in Datasets
    /\ prediction \in Predictions
    /\ NotebookFresh
    /\ CIFresh

Next ==
    \/ DownloadCell
    \/ LoadCell
    \/ StartDisplay
    \/ DisplayFetchBatch
    \/ DisplaySample
    \/ DisplayOuterCheck
    \/ StartLoop
    \/ FetchBatch
    \/ ProcessSample
    \/ OuterCheck
    \/ MetricCell

Spec == Init /\ [][Next]_vars

\* the runs with the configured model name and a model that predicts every
\* label (the loops do not look at what the model predicts)
InitLoops ==
    /\ Init
    /\ model_name \in {<<>>, <<"y","o","l","o","v","5">>}
    /\ prediction = [l \in Labels |-> l]

\* cell evaluation is synchronous and single-threaded: a cell that can take its
\* next step takes it
SpecFair == InitLoops /\ [][Next]_vars /\ WF_vars(Next)

\* --------------------------------------------- the download cell, re-run
MaxCellRuns == 3

InitDownload ==
    /\ pc = "download"
    /\ notebook \in {"basic_usage", "deletion_insertion"}
    /\ model_name = <<>>
    /\ files \in [FileNames -> FileStates]
    /\ zoo = WeightSources
    /\ batch_size = 1
    /\ max_samples_explained = 1
    /\ dataset = <<>>
    /\ prediction = <<>>
    /\ NotebookFresh
    /\ CIFresh

\* the download cell run once more, nothing else of the notebook running
RerunDownloadCell ==
    /\ pc = "download"
    /\ cell_runs < MaxCellRuns
    /\ \E o1 \in WgetOutcomes, o2 \in WgetOutcomes : DownloadLines(o1, o2)
    /\ UNCHANGED <<pc, zoo, configVars, displayVars, loadVars, loopVars, outVars, ciVars>>

NextDownload == RerunDownloadCell

SpecDownload == InitDownload /\ [][NextDownload]_vars

\* ------------------------------------------------------------ CI pipeline
Step(name, run) == [name |-> name, run |-> run]

\* the steps of the composite action "Build Python Module"
BuildModuleSteps ==
    <<Step("Set up Python", "actions/setup-python@v4"),
      Step("Load cached venv", "actions/cache@v3"),
      Step("Setup poetry", "abatilo/actions-poetry@v2.1.5"),
      Step("Install dependencies", "poetry install"),
      Step("Run Black", "poetry run black . --check --diff --color"),
      Step("Run MyPy checks", "poetry run mypy -p foxai"),
      Step("Run tests", "poetry run pytest")>>

\* the job of the workflow "Installation test": checkout, CUDA toolkit, then
\* the steps of ./.github/actions/build-module
Pipeline ==
    <<Step("checkout", "actions/checkout@v3"),
      Step("install-cuda-toolkit", "Jimver/cuda-toolkit@v0.2.8")>> \o BuildModuleSteps

\* on: workflow_dispatch
WorkflowOn_with_pull_request == {"workflow_dispatch", "pull_request"}
WorkflowOn == {"workflow_dispatch"}

\* the events the repository receives
Events == {"pull_request", "workflow_dispatch", "push"}

\* a step without an if: condition runs only while every earlier step
\* succeeded; otherwise it is skipped
step_outcomes(run) ==
    IF \A i \in 1..Len(run) : run[i] = "success"
    THEN {"success", "failure"}
    ELSE {"skipped"}

conclusion(run) ==
    IF \A i \in 1..Len(run) : run[i] = "success" THEN "success" ELSE "failure"

\* an event arrives: it starts a run of the workflow if the workflow names it
Trigger ==
    /\ ci_event = NULL
    /\ Len(ci_done) < MaxRuns
    /\ \E e \in Events :
          IF e \in WorkflowOn
          THEN /\ ci_event' = e
               /\ ci_run' = <<>>
               /\ ci_done' = ci_done
          ELSE /\ ci_done' = Append(ci_done,
                        [event |-> e, conclusion |-> "not_started", steps |-> <<>>])
               /\ UNCHANGED <<ci_event, ci_run>>
    /\ UNCHANGED <<pc, envVars, configVars, displayVars, loadVars, loopVars, outVars>>

\* the runner takes the next step of the job
RunStep ==
    /\ ci_event # NULL
    /\ Len(ci_run) < Len(Pipeline)
    /\ \E o \in step_outcomes(ci_run) : ci_run' = Append(ci_run, o)
    /\ UNCHANGED <<ci_event, ci_done, pc, envVars, configVars, displayVars, loadVars, loopVars,
                   outVars>>

\* the job is over
FinishRun ==
    /\ ci_event # NULL
    /\ Len(ci_run) = Len(Pipeline)
    /\ ci_done' = Append(ci_done, [event |-> ci_event, conclusion |-> conclusion(ci_run),
                                   steps |-> ci_run])
    /\ ci_event' = NULL
    /\ ci_run' = <<>>
    /\ UNCHANGED <<pc, envVars, configVars, displayVars, loadVars, loopVars, outVars>>

InitCI ==
    /\ pc = "download"
    /\ notebook = "basic_usage"
    /\ model_name = <<>>
    /\ files = [f \in FileNames |-> "absent"]
    /\ zoo = WeightSources
    /\ batch_size = 1
    /\ max_samples_explained = 1
    /\ dataset = <<>>
    /\ prediction = <<>>
    /\ NotebookFresh
    /\ CIFresh

NextCI ==
    \/ Trigger
    \/ RunStep
    \/ FinishRun

SpecCI == InitCI /\ [][NextCI]_vars

\* ----------------------------------------------------- claims: load_model
\* the transform each supported name is expected to select
ExpectedTransform(n) ==
    CASE n = <<"y","o","l","o","v","5">> -> "MobileNet_V3_Small_Weights"
      [] n = <<"v","g","g","1","1">> -> "VGG11_Weights"
      [] n = <<"v","i","t">> -> "ViT_B_16_Weights"
      [] n = <<"r","e","s","n","e","t","5","0">> -> "ResNet50_Weights"
      [] n = <<"m","o","b","i","l","e","n","e","t","v","3">>
            -> "MobileNet_V3_Small_Weights"

\* what the branch of a supported name takes from its surroundings
ResourcesAvailable(n, fs, z) ==
    CASE n = <<"y","o","l","o","v","5">> ->
            /\ "ultralytics/yolov5" \in z
            /\ fs["yolov5s-cls.pt"] = "ok"
            /\ fs["ImageNet.yaml"] = "ok"
      [] n = <<"v","g","g","1","1">> -> "VGG11_Weights" \in z
      [] n = <<"v","i","t">> -> "ViT_B_16_Weights" \in z
      [] n = <<"r","e","s","n","e","t","5","0">> -> "ResNet50_Weights" \in z
      [] n = <<"m","o","b","i","l","e","n","e","t","v","3">>
            -> "MobileNet_V3_Small_Weights" \in z

IsTriple(r, n) ==
    /\ r.kind = "return"
    /\ r.model # NULL
    /\ Len(r.categories) > 0
    /\ r.transform = ExpectedTransform(n)

\* s occurs in t as a contiguous run of characters
Contains(t, s) ==
    \E i \in 1..(Len(t) + 1) :
        /\ i + Len(s) - 1 <= Len(t)
        /\ SubSeq(t, i, i + Len(s) - 1) = s

\* C1 as stated: every supported name yields a triple, without error.
C1_AlwaysReturns ==
    (pc = "returned" /\ normalize(model_name) \in SupportedNames)
        => IsTriple(result, normalize(model_name))

\* C1, amended: for every name whose lower-cased, trimmed form is supported,
\* load_model returns the triple of the selected branch (non-null model,
\* non-empty categories, the branch's transform) whenever the framework calls
\* of the branch succeed (its weights can be loaded and, for yolov5,
\* yolov5s-cls.pt and ImageNet.yaml can be read from local storage); when one
\* fails its error propagates, no triple is returned, and the error is never
\* ValueError.
C1_ReturnsWhenResourcesAvailable ==
    (pc = "returned" /\ normalize(model_name) \in SupportedNames)
        => IF ResourcesAvailable(normalize(model_name), files, zoo)
           THEN IsTriple(result, normalize(model_name))
           ELSE result.kind = "raise" /\ result.exc # "ValueError"

C1_Witness ==
    /\ pc = "returned"
    /\ model_name = <<" ">> \o upper(<<"r","e","s","n","e","t","5","0">>) \o <<"\t">>
    /\ result.kind = "return"
    /\ result.model = "resnet50"

\* C2: a name whose normalized form is not supported raises ValueError whose
\* message contains the name as supplied, before any model is constructed, any
\* weights are loaded or any file is opened, and no triple is returned.
C2_UnsupportedFailsFast ==
    (pc = "returned" /\ normalize(model_name) \notin SupportedNames)
        => /\ result.kind = "raise"
           /\ result.exc = "ValueError"
           /\ Contains(result.message, model_name)
           /\ result.loaded = {}
           /\ result.opened = {}
           /\ result.model = NULL
           /\ result.categories = <<>>
           /\ result.transform = NULL

C2_Witness ==
    /\ pc = "returned"
    /\ model_name = <<"\t">> \o capitalize(<<"r","e","s","n","e","t">>)
    /\ result.exc = "ValueError"
    /\ zoo = WeightSources
    /\ \A f \in FileNames : files[f] = "ok"

\* the inputs that differ from a only in letter case and in leading or
\* trailing whitespace
Variants(a) ==
    {l \o c \o r : l \in SeqsUpTo({" ", "\t"}, 1), r \in SeqsUpTo({" ", "\n"}, 1),
                   c \in {a, upper(a), lower(a), capitalize(a), strip(a)}}

SameOutcome(r1, r2) ==
    /\ r1.kind = r2.kind
    /\ r1.exc = r2.exc
    /\ r1.model = r2.model
    /\ r1.categories = r2.categories
    /\ r1.transform = r2.transform

\* C3: the outcome depends only on the normalized name: inputs with the same
\* lower-cased, trimmed form select the same branch or both raise the same
\* error; normalization is idempotent; a change of letter case or of leading
\* or trailing whitespace keeps the normalized form, so it never turns a
\* supported name into an unsupported one or back.
C3_OutcomeDependsOnNormalizedName ==
    pc = "returned" =>
        /\ normalize(normalize(model_name)) = normalize(model_name)
        /\ \A b \in Variants(model_name) :
              /\ normalize(b) = normalize(model_name)
              /\ SameOutcome(load_model(b, files, zoo), result)
              /\ (load_model(b, files, zoo).exc = "ValueError")
                    <=> (result.exc = "ValueError")

C3_Witness ==
    /\ pc = "returned"
    /\ model_name = <<" ">> \o capitalize(VIT)
    /\ result.kind = "return"
    /\ result.model = "vit_b_16"

\* C4: the names load_model recognizes are exactly those of its docstring.
C4_RecognizedAreDocstringNames ==
    pc = "returned" =>
        ((normalize(model_name) \in DocstringNames) <=> (result.exc # "ValueError"))

\* ------------------------------------------------- claims: the notebooks
\* the samples that have a file in directory d
SamplesIn(d) == {f.sample : f \in {g \in artifacts : g.dir = d}}

\* C5 as stated: a loop writes artifacts for at most max_samples_explained
\* distinct samples and stops once that many samples have been processed.
C5_AtMostMaxSamples ==
    /\ sample_counter <= max_samples_explained
    /\ \A d \in dirs : Cardinality(SamplesIn(d)) <= max_samples_explained

\* C6 as stated: a file carries the index of its sample and the category the
\* model predicted for that sample.
C6_NamedByPredictedCategory ==
    \A f \in artifacts :
        f.name = <<"artifact", f.sample, categories[prediction[dataset[f.sample + 1]] + 1]>>

\* C6, amended: every PNG an explanation loop writes is artifact_<i>_<category>.png
\* in <artifact_dir>/<explainer>, where i is the zero-based index of the sample
\* in iteration order and category is categories[label], the category of the
\* sample's data-set label (the target of the explanation), whatever the model
\* predicts for the sample.
C6_NamedByIndexAndLabelCategory ==
    \A f \in artifacts :
        /\ f.name = <<"artifact", f.sample, categories[dataset[f.sample + 1] + 1]>>
        /\ \E e \in {GeneralExplainers[i] : i \in 1..Len(GeneralExplainers)}
                   \cup {LayerExplainers[i] : i \in 1..Len(LayerExplainers)} :
               f.dir = e.explainer_name

C6_Witness ==
    /\ \E f \in artifacts :
          /\ f.sample = 1
          /\ f.dir = "CV_LAYER_GRADCAM_EXPLAINER"
          /\ prediction[dataset[f.sample + 1]] # dataset[f.sample + 1]
    /\ categories = YamlCategories

NamesOf(explainers) == {explainers[i].explainer_name : i \in 1..Len(explainers)}

C9_DownloadOnlyIfMissing ==
    [][\A f \in FileNames :
          /\ files[f] # "absent" => (files'[f] = files[f] /\ fetched'[f] = fetched[f])
          /\ (files[f] = "absent" /\ cell_runs' # cell_runs)
                => fetched'[f] = fetched[f] + 1
          /\ (\A g \in FileNames : files[g] = "ok") => fetched' = fetched]_vars

C9_Witness ==
    /\ cell_runs = 2
    /\ \A f \in FileNames : files[f] = "ok" /\ fetched[f] = 1

\* ------------------------------------------------------ claims: the CI
\* the position in the job of the step that runs a command
StepOf(command) == CHOOSE i \in 1..Len(Pipeline) : Pipeline[i].run = command

\* the steps of a run that were executed
Executed(run) == {i \in 1..Len(run) : run[i] # "skipped"}

\* installation, black --check, mypy and pytest run in that order against the
\* package, and a step is executed only if every earlier step succeeded
StepsInOrder(run) ==
    /\ StepOf("poetry install") < StepOf("poetry run black . --check --diff --color")
    /\ StepOf("poetry run black . --check --diff --color")
            < StepOf("poetry run mypy -p foxai")
    /\ StepOf("poetry run mypy -p foxai") < StepOf("poetry run pytest")
    /\ \A i \in Executed(run) : \A j \in 1..(i - 1) : run[j] = "success"

AllRuns == {ci_done[i].steps : i \in 1..Len(ci_done)} \cup {ci_run}

\* C10 as stated: the ordered, fail-fast pipeline is started on pull-request
\* and on manual-dispatch events.
C10_StartedOnPullRequestAndDispatch ==
    /\ \A run \in AllRuns : StepsInOrder(run)
    /\ \A i \in 1..Len(ci_done) :
          ci_done[i].event \in {"pull_request", "workflow_dispatch"}
              => ci_done[i].conclusion # "not_started"

\* C10, amended: the build action runs dependency installation, black --check,
\* mypy and pytest in that order against the library package, a later step
\* runs only if every earlier step succeeded, and the pipeline (the workflow
\* "Installation test") is started on manual-dispatch events only: a
\* pull-request event starts no run.
C10_StartedOnDispatchOnly ==
    /\ \A run \in AllRuns : StepsInOrder(run)
    /\ ci_event \in {NULL, "workflow_dispatch"}
    /\ \A i \in 1..Len(ci_done) :
          (ci_done[i].event = "workflow_dispatch")
              <=> (ci_done[i].conclusion # "not_started")

C10_Witness ==
    /\ Len(ci_done) = 2
    /\ ci_done[1].event = "pull_request"
    /\ ci_done[1].conclusion = "not_started"
    /\ ci_done[2].event = "workflow_dispatch"
    /\ ci_done[2].steps[StepOf("poetry run mypy -p foxai")] = "failure"
    /\ ci_done[2].steps[StepOf("poetry run pytest")] = "skipped"

\* ------------------------------------------- claims: the loops, continued
\* the samples the running (or just finished) loop has processed
Processed == UNION {SamplesIn(k) : k \in NamesOf(explainer_list)}

\* the number of samples an explanation loop gets through, whatever the batch size
Explained(n, limit) == IF n <= limit THEN n ELSE limit + 1

\* an explanation loop of the notebook has run to its end
LoopFinished ==
    /\ notebook = "basic_usage"
    /\ lpc = "idle"
    /\ pc \in {"layer", "done"}

Terminated == pc \in {"done", "error"}

Min(a, b) == IF a <= b THEN a ELSE b

\* the first k samples of the data set, one per axis, in data-set order
FirstSamples(k) == [i \in 1..k |-> [axis |-> i - 1, sample |-> i - 1]]

\* the display cell has come to its end, normally or by an exception
DisplayEnded ==
    /\ notebook = "basic_usage"
    /\ pc \in {"general", "layer", "done"} \/ display_exc # NULL

\* C12: the display cell shows exactly min(max_samples_explained, data-set
\* size) samples, the first ones in data-set order, whatever the batch size,
\* and every axes.flat[counter] it evaluates has 0 <= counter <
\* max_samples_explained, so the grid is never indexed out of range.
C12_DisplayShowsFirstSamples ==
    /\ DisplayEnded => shown = FirstSamples(Min(max_samples_explained, N))
    /\ \A i \in 1..Len(shown) : shown[i].axis \in 0..(max_samples_explained - 1)
    /\ display_exc # "IndexError"

\* ------------------------------------------ claims: the artifact directory
Ops(kind, key) == {o \in fsops : o.op = kind /\ o.dir = key}

\* C13: the directory of an explainer key exists whenever a figure is saved
\* into it; it is created, parents included, at the first sample that yields
\* the key and only if the path does not exist yet; later samples leave the
\* directories and the files already written as they are.
C13_DirectoryExistsWhenSaving ==
    /\ [](\A o \in fsops :
            /\ o.op = "savefig" => o.existed /\ o.dir \in dirs
            /\ o.op = "makedirs" => ~o.existed /\ o.count = 0)
    /\ [](\A k \in dirs : Cardinality(Ops("makedirs", k)) = 1)
    /\ [][dirs \subseteq dirs' /\ artifacts \subseteq artifacts']_vars

C13_Witness ==
    \E k \in dirs :
        /\ Ops("makedirs", k) # {}
        /\ \E o \in Ops("savefig", k) : o.count >= 1 /\ o.existed
        /\ Cardinality(SamplesIn(k)) >= 2

====
